---- MODULE Spec2Model ----
(***************************************************************************)
(* siren: a command-line audio player.  main() parses the command line,    *)
(* opens the demux/decode session and a PortAudio output stream, and the   *)
(* audio subsystem then calls pa_stream_cb on its own thread.  The model   *)
(* follows main() statement group by statement group and pa_stream_cb one  *)
(* refill-loop iteration at a time.                                        *)
(*                                                                         *)
(* A byte of decoded audio is the tuple <<p, k, c, b>>: byte b of the      *)
(* sample of channel c at sample position k of the p-th packet read, so    *)
(* that every copy, slice and transpose is visible in the data.            *)
(***************************************************************************)
EXTENDS Integers, Sequences, FiniteSets, TLC

VARIABLES
    mainPc,        \* position of the main thread
    args,          \* the options present on the command line (argc == 1 iff empty)
    exitCode,      \* process exit status, NotExited while running
    session,       \* nb_streams/codec_type, audioStreamIndex, sample_fmt, channels
    streamActive,  \* the PortAudio stream is started and not yet stopped
    freed,         \* packet, frame, codecCtx, fmtCtx have been freed (lines 423-426)
    closed,        \* Pa_CloseStream has succeeded (line 415)
    cbPc,          \* position of the callback thread: "idle" or "while"
    frameCount,    \* the request of the current (or last) invocation
    frameQueue,    \* std::queue<std::vector<uint8_t>>
    output,        \* what this invocation wrote to outputBuffer, in order
    ret,           \* result of the last invocation
    held,          \* ctx->packet holds a reference that was not yet unref'ed
    eof,           \* av_read_frame reported the end of the source
    source,        \* history: the packets av_read_frame has returned, in order
    decoded,       \* history: indices (into source) of packets passed to decodePacket
    pushed,        \* history: every frame emplaced into frameQueue, in order
    played,        \* history: every frame written to an output buffer, in order
    entryQueue,    \* history: frameQueue at entry of the current invocation
    entryPushed,   \* history: Len(pushed) at entry of the current invocation
    readsInCall,   \* history: packets read by the current invocation
    requested,     \* history: sum of frameCount over the invocations that returned paContinue
    packetData,    \* history: packetData (line 95) as decodePacket left it for the last packet
    packetFrames   \* history: the frames emplaced into frameQueue for the last packet

vars == <<mainPc, args, exitCode, session, streamActive, freed, closed, cbPc, frameCount,
          frameQueue, output, ret, held, eof, source, decoded, pushed, played,
          entryQueue, entryPushed, readsInCall, requested, packetData, packetFrames>>

mainVars == <<mainPc, args, exitCode, session, streamActive, freed, closed>>
cbVars == <<cbPc, frameCount, frameQueue, output, ret, held, eof, source, decoded,
            pushed, played, entryQueue, entryPushed, readsInCall, requested,
            packetData, packetFrames>>

-----------------------------------------------------------------------------
(* Bounds of the model *)

MaxPackets == 2     \* packets in the source
MaxCount == 3       \* frameCount of one request
MaxChannels == 2    \* channels of the audio stream
MaxLen == 5         \* bytes of one channel buffer handed to the repacker on its own

-----------------------------------------------------------------------------
(* Library constants *)

AVERROR_EAGAIN == -11
AVERROR_EOF == -541478725
AVERROR_EINVAL == -22
AVERROR_ENOMEM == -12
AVERROR_INVALIDDATA == -1094995529

EXIT_FAILURE == 1
NotExited == -1

paContinue == "paContinue"
paComplete == "paComplete"

-----------------------------------------------------------------------------
(* Sample formats: av_sample_fmt_is_planar, av_get_bytes_per_sample and     *)
(* getPaSampleFormat                                                        *)

\* The formats the model opens files with: one interleaved, one planar, one
\* that PortAudio cannot play
SampleFmts == {"U8", "S16P", "DBL"}

av_sample_fmt_is_planar(fmt) == fmt \in {"U8P", "S16P", "S32P", "FLTP"}

av_get_bytes_per_sample(fmt) ==
    CASE fmt \in {"U8", "U8P"} -> 1
      [] fmt \in {"S16", "S16P"} -> 2
      [] fmt \in {"S32", "S32P", "FLT", "FLTP"} -> 4
      [] OTHER -> 8

\* lines 167-197: TRUE iff PortAudio has a sample format for the codec's format
getPaSampleFormat(fmt) ==
    fmt \in {"U8", "U8P", "S16", "S16P", "S32", "S32P", "FLT", "FLTP"}

-----------------------------------------------------------------------------
(* The source file as the demuxer and the decoder present it *)

\* codec_type of the streams of the files the model opens
StreamLayouts == {<<"video", "audio">>, <<"video">>, <<>>}

\* lines 301-307: index (0-based) of the first audio stream, -1 if there is none
FindAudioStream(streams) ==
    LET audio == {i \in 1..Len(streams) : streams[i] = "audio"}
    IN  IF audio = {} THEN -1
        ELSE (CHOOSE i \in audio : \A j \in audio : i <= j) - 1

NoSession == [nb_streams |-> 0, audioStreamIndex |-> -1, sample_fmt |-> "NONE", channels |-> 0]

\* negative results of avcodec_send_packet
SendErrors == {AVERROR_EAGAIN, AVERROR_EOF, AVERROR_EINVAL, AVERROR_ENOMEM,
               AVERROR_INVALIDDATA}

\* negative results of avcodec_receive_frame: no more output for this packet
\* (EAGAIN) or a failure; the decoder is never flushed, so it never reports EOF
ReceiveEnds == {AVERROR_EAGAIN, AVERROR_ENOMEM, AVERROR_INVALIDDATA}

\* nb_samples of the frames avcodec_receive_frame yields for one packet
FrameRuns == {<<>>, <<1>>, <<2>>, <<1, 1>>}

\* What the libraries do with one packet: the stream it belongs to, the result
\* of avcodec_send_packet, the frames avcodec_receive_frame yields and the
\* negative code that ends the receive loop.
AudioPackets(idx) ==
    {[stream_index |-> idx, send |-> c, frames |-> <<>>, end |-> AVERROR_EAGAIN] :
        c \in SendErrors}
    \cup
    {[stream_index |-> idx, send |-> 0, frames |-> f, end |-> e] :
        f \in FrameRuns, e \in ReceiveEnds}

OtherPackets(idx) ==
    {[stream_index |-> idx, send |-> 0, frames |-> <<1>>, end |-> AVERROR_EAGAIN]}

Packets(s) ==
    UNION {IF i - 1 = s.audioStreamIndex THEN AudioPackets(i - 1) ELSE OtherPackets(i - 1) :
           i \in 1..s.nb_streams}

-----------------------------------------------------------------------------
(* decodePacket, lines 28-79 *)

Byte(p, k, c, b) == <<p, k, c, b>>

\* frame->data[c] of a planar frame holding samples k0 .. k0+nb-1 of packet p
PlanarLine(p, k0, nb, c, bps) ==
    [j \in 1..(nb * bps) |-> Byte(p, k0 + ((j - 1) \div bps), c, (j - 1) % bps)]

\* frame->data[0] of an interleaved frame
PackedLine(p, k0, nb, ch, bps) ==
    [j \in 1..(nb * bps * ch) |->
        Byte(p, k0 + ((j - 1) \div (bps * ch)), ((j - 1) \div bps) % ch, (j - 1) % bps)]

\* lines 57-65: append one received frame to data
AppendFrame(data, p, k0, nb, s) ==
    LET bps == av_get_bytes_per_sample(s.sample_fmt)
    IN  IF av_sample_fmt_is_planar(s.sample_fmt)
        THEN [i \in 1..Len(data) |-> data[i] \o PlanarLine(p, k0, nb, i - 1, bps)]
        ELSE [i \in 1..Len(data) |->
                IF i = 1 THEN data[1] \o PackedLine(p, k0, nb, s.channels, bps)
                ELSE data[i]]

RECURSIVE ReceiveLoop(_, _, _, _, _, _)
\* lines 48-76: the i-th call of avcodec_receive_frame for this packet
ReceiveLoop(p, pkt, i, k0, data, s) ==
    IF i > Len(pkt.frames)
    THEN IF pkt.end = AVERROR_EAGAIN \/ pkt.end = AVERROR_EOF
         THEN [ret |-> 0, data |-> data]
         ELSE [ret |-> pkt.end, data |-> data]
    ELSE ReceiveLoop(p, pkt, i + 1, k0 + pkt.frames[i],
                     AppendFrame(data, p, k0, pkt.frames[i], s), s)

decodePacket(p, pkt, s) ==
    IF pkt.send < 0
    THEN [ret |-> pkt.send, data |-> <<>>]
    ELSE ReceiveLoop(p, pkt, 1, 0,
                     [i \in 1..(IF av_sample_fmt_is_planar(s.sample_fmt) THEN s.channels ELSE 1)
                        |-> <<>>],
                     s)

-----------------------------------------------------------------------------
(* The repacker of pa_stream_cb, lines 111-134 *)

\* A read past the end of a vector yields no byte of the stream
Garbage == <<0, 0, 0, 0>>

\* memcpy(dst, buf.data() + offset, n)
Memcpy(buf, offset, n) ==
    [j \in 1..n |-> IF offset + j <= Len(buf) THEN buf[offset + j] ELSE Garbage]

RECURSIVE Flatten(_)
Flatten(ss) == IF ss = <<>> THEN <<>> ELSE Head(ss) \o Flatten(Tail(ss))

\* number of iterations of: for (offset = 0; offset < size; offset += step)
LoopCount(size, step) == (size + step - 1) \div step

\* RepackPlanar without the transposition: the channel buffers are laid end
\* to end and cut into frames
RepackPlanarUntransposed(data, numChannels, bps) ==
    [n \in 1..LoopCount(Len(data[1]), bps) |->
        Memcpy(Flatten(data), (n - 1) * numChannels * bps, numChannels * bps)]

\* lines 114-125
RepackPlanar(data, numChannels, bps) ==
    [n \in 1..LoopCount(Len(data[1]), bps) |->
        Flatten([ch \in 1..numChannels |-> Memcpy(data[ch], (n - 1) * bps, bps)])]

\* RepackInterleaved with the stride of one sample for that of one frame
RepackInterleavedSampleStride(data, numChannels, bps) ==
    [n \in 1..LoopCount(Len(data[1]), bps) |-> Memcpy(data[1], (n - 1) * bps, bps)]

\* lines 126-134
RepackInterleaved(data, numChannels, bps) ==
    LET step == numChannels * bps
    IN  [n \in 1..LoopCount(Len(data[1]), step) |-> Memcpy(data[1], (n - 1) * step, step)]

Repack(data, s) ==
    IF av_sample_fmt_is_planar(s.sample_fmt)
    THEN RepackPlanar(data, s.channels, av_get_bytes_per_sample(s.sample_fmt))
    ELSE RepackInterleaved(data, s.channels, av_get_bytes_per_sample(s.sample_fmt))

\* IsFatal with the test for EINVAL left out
IsFatalWithoutEinval(r) ==
    ~(r /= AVERROR_EAGAIN /\ r /= AVERROR_EOF /\ r /= AVERROR_ENOMEM)

\* IsFatal with every error giving up: no packet is skipped
IsFatalAnyError(r) == r < 0

\* lines 99-102: the codes of decodePacket after which the callback gives up
IsFatal(r) ==
    ~(r /= AVERROR_EAGAIN /\ r /= AVERROR_EOF /\ r /= AVERROR_EINVAL /\ r /= AVERROR_ENOMEM)

\* IsSelected with the stream index not looked at
IsSelectedAlways(pkt, s) == TRUE

\* line 93
IsSelected(pkt, s) == pkt.stream_index = s.audioStreamIndex

\* ProcessPacket with the skip of lines 103-105 falling through to the repacker
ProcessPacketKeepsPartial(p, pkt, s) ==
    IF ~IsSelected(pkt, s)
    THEN [decoded |-> FALSE, data |-> <<>>, frames |-> <<>>, unref |-> TRUE,
          complete |-> FALSE]
    ELSE LET r == decodePacket(p, pkt, s)
         IN  IF r.ret < 0 /\ IsFatal(r.ret)
             THEN [decoded |-> TRUE, data |-> r.data, frames |-> <<>>, unref |-> FALSE,
                   complete |-> TRUE]
             ELSE [decoded |-> TRUE, data |-> r.data,
                   frames |-> IF r.data = <<>> THEN <<>> ELSE Repack(r.data, s),
                   unref |-> TRUE, complete |-> FALSE]

\* lines 93-136: what one iteration of the refill loop does with the packet it
\* read, the p-th of the source: whether decodePacket was called, packetData
\* as decodePacket left it, the frames emplaced into frameQueue, whether
\* av_packet_unref was called, and whether the callback returns paComplete
\* (line 107) instead of looping
ProcessPacket(p, pkt, s) ==
    IF ~IsSelected(pkt, s)
    THEN [decoded |-> FALSE, data |-> <<>>, frames |-> <<>>, unref |-> TRUE,
          complete |-> FALSE]
    ELSE LET r == decodePacket(p, pkt, s)
         IN  IF r.ret < 0
             THEN IF ~IsFatal(r.ret)
                  THEN [decoded |-> TRUE, data |-> r.data, frames |-> <<>>, unref |-> TRUE,
                        complete |-> FALSE]
                  ELSE [decoded |-> TRUE, data |-> r.data, frames |-> <<>>, unref |-> FALSE,
                        complete |-> TRUE]
             ELSE [decoded |-> TRUE, data |-> r.data, frames |-> Repack(r.data, s),
                   unref |-> TRUE, complete |-> FALSE]

\* NeedsRefill with <= for <
NeedsRefillInclusive(q, n) == Len(q) <= n

\* NeedsRefill stopping one frame early
NeedsRefillOneLess(q, n) == Len(q) + 1 < n

\* NeedsRefill filling up to twice the request
NeedsRefillDouble(q, n) == Len(q) < n + n

\* NeedsRefill that never finds the queue full enough
NeedsRefillAlways(q, n) == TRUE

\* line 91: the condition of the refill loop
NeedsRefill(q, n) == Len(q) < n

\* PopFrames with the pop() left out
PopFramesNoPop(q, n) ==
    [written |-> [i \in 1..n |-> IF q /= <<>> THEN q[1] ELSE <<Garbage>>], queue |-> q]

\* PopFrames taking back()/pop_back() for front()/pop()
PopFramesFromBack(q, n) ==
    [written |-> [i \in 1..n |-> IF i <= Len(q) THEN q[Len(q) + 1 - i] ELSE <<Garbage>>],
     queue |-> SubSeq(q, 1, Len(q) - n)]

\* PopFrames with the loop one iteration short
PopFramesOneShort(q, n) ==
    LET m == IF n > 0 THEN n - 1 ELSE 0
    IN  [written |-> [i \in 1..m |-> IF i <= Len(q) THEN q[i] ELSE <<Garbage>>],
         queue |-> SubSeq(q, m + 1, Len(q))]

\* lines 156-162: front()/memcpy/pop, n times; front() of an empty queue
\* yields no frame of the stream
PopFrames(q, n) ==
    [written |-> [i \in 1..n |-> IF i <= Len(q) THEN q[i] ELSE <<Garbage>>],
     queue |-> SubSeq(q, n + 1, Len(q))]

\* DrainFrames with the loop bound read from the shrinking queue
\* (for i < frameQueue->size()): the loop stops half way
DrainFramesShrinkingBound(q) ==
    LET m == (Len(q) + 1) \div 2
    IN  [written |-> [i \in 1..m |-> q[i]], queue |-> SubSeq(q, m + 1, Len(q))]

\* DrainFrames with the pop() of line 147 left out
DrainFramesNoPop(q) ==
    [written |-> [i \in 1..Len(q) |-> q[i]], queue |-> q]

\* lines 138-148: write every remaining frame
DrainFrames(q) ==
    [written |-> [i \in 1..Len(q) |-> q[i]], queue |-> <<>>]

-----------------------------------------------------------------------------
(* main, lines 225-429 *)

\* The command lines the model starts the process with, each the set of
\* options present; "unknown" stands for anything cxxopts rejects with an
\* OptionException, and {} is the command line without arguments (argc == 1).
CommandLines ==
    {{}, {"help"}, {"help", "file"}, {"listhostapi"}, {"file", "listhostapi"},
     {"verbosity"}, {"samplerate", "bufferframes"}, {"file"}, {"unknown"},
     {"unknown", "help"}, {"unknown", "file"}}

\* ParseOutcome with the else branch of lines 263-266 left out
ParseOutcomeNoFileCheck(a) ==
    IF a = {} THEN "exit0"
    ELSE IF "unknown" \in a THEN "exit1"
    ELSE IF "help" \in a THEN "exit0"
    ELSE IF "listhostapi" \in a THEN "list"
    ELSE "play"

\* lines 233-275: what the parsing of the command line leads to
ParseOutcome(a) ==
    IF a = {} THEN "exit0"                       \* argc == 1, lines 244-247
    ELSE IF "unknown" \in a THEN "exit1"         \* lines 271-275
    ELSE IF "help" \in a THEN "exit0"            \* lines 251-254
    ELSE IF "listhostapi" \in a THEN "list"      \* lines 256-259
    ELSE IF "file" \in a THEN "play"             \* lines 261-262
    ELSE "exit1"                                 \* lines 263-266

Exit(code) ==
    /\ mainPc' = "exited"
    /\ exitCode' = code

Init ==
    /\ mainPc = "parse"
    /\ args \in CommandLines
    /\ exitCode = NotExited
    /\ session = NoSession
    /\ streamActive = FALSE
    /\ freed = FALSE
    /\ closed = FALSE
    /\ cbPc = "idle"
    /\ frameCount = 0
    /\ frameQueue = <<>>
    /\ output = <<>>
    /\ ret = "none"
    /\ held = FALSE
    /\ eof = FALSE
    /\ source = <<>>
    /\ decoded = <<>>
    /\ pushed = <<>>
    /\ played = <<>>
    /\ entryQueue = <<>>
    /\ entryPushed = 0
    /\ readsInCall = 0
    /\ requested = 0
    /\ packetData = <<>>
    /\ packetFrames = <<>>

\* lines 233-275; listHostApiInfo is lines 208-223
ParseArgs ==
    /\ mainPc = "parse"
    /\ LET o == ParseOutcome(args)
       IN  CASE o = "exit0" -> Exit(0)
             [] o = "exit1" -> Exit(EXIT_FAILURE)
             [] o = "list" ->
                    \E paOk \in BOOLEAN :
                        IF paOk THEN Exit(0)
                        ELSE mainPc' = "pa_error" /\ exitCode' = exitCode
             [] o = "play" -> mainPc' = "open" /\ exitCode' = exitCode
    /\ UNCHANGED <<args, session, streamActive, freed, closed>>
    /\ UNCHANGED cbVars

\* lines 279-347: open the file, find the audio stream, open the decoder
OpenInput ==
    /\ mainPc = "open"
    /\ \E ok \in BOOLEAN, streams \in StreamLayouts, fmt \in SampleFmts, ch \in 1..MaxChannels :
          IF ~ok \/ FindAudioStream(streams) = -1
          THEN Exit(EXIT_FAILURE) /\ session' = session
          ELSE /\ session' = [nb_streams |-> Len(streams),
                              audioStreamIndex |-> FindAudioStream(streams),
                              sample_fmt |-> fmt, channels |-> ch]
               /\ mainPc' = "pa_open"
               /\ exitCode' = exitCode
    /\ UNCHANGED <<args, streamActive, freed, closed>>
    /\ UNCHANGED cbVars

\* lines 361-399: Pa_Initialize, getPaSampleFormat, Pa_OpenDefaultStream
OpenStream ==
    /\ mainPc = "pa_open"
    /\ \E initOk \in BOOLEAN, openOk \in BOOLEAN :
          IF ~initOk THEN mainPc' = "pa_error" /\ exitCode' = exitCode
          ELSE IF ~getPaSampleFormat(session.sample_fmt) THEN Exit(EXIT_FAILURE)
          ELSE IF ~openOk THEN mainPc' = "pa_error" /\ exitCode' = exitCode
          ELSE mainPc' = "start" /\ exitCode' = exitCode
    /\ UNCHANGED <<args, session, streamActive, freed, closed>>
    /\ UNCHANGED cbVars

\* lines 401-404
StartStream ==
    /\ mainPc = "start"
    /\ \E ok \in BOOLEAN :
          IF ok THEN mainPc' = "playing" /\ streamActive' = TRUE
          ELSE mainPc' = "pa_error" /\ streamActive' = streamActive
    /\ UNCHANGED <<args, exitCode, session, freed, closed>>
    /\ UNCHANGED cbVars

\* lines 406-408: the user presses <Enter>
WaitEnter ==
    /\ mainPc = "playing"
    /\ mainPc' = "stop"
    /\ UNCHANGED <<args, exitCode, session, streamActive, freed, closed>>
    /\ UNCHANGED cbVars

\* lines 410-413: Pa_StopStream returns once the callback is no longer running
StopStream ==
    /\ mainPc = "stop"
    /\ \E ok \in BOOLEAN :
          IF ok THEN cbPc = "idle" /\ mainPc' = "close" /\ streamActive' = FALSE
          ELSE mainPc' = "pa_error" /\ streamActive' = streamActive
    /\ UNCHANGED <<args, exitCode, session, freed, closed>>
    /\ UNCHANGED cbVars

\* CloseStream with the error check of lines 416-418 left out
CloseStreamIgnoringError ==
    /\ mainPc = "close"
    /\ \E ok \in BOOLEAN :
          /\ mainPc' = "release"
          /\ closed' = ok
    /\ UNCHANGED <<args, exitCode, session, streamActive, freed>>
    /\ UNCHANGED cbVars

\* lines 415-418
CloseStream ==
    /\ mainPc = "close"
    /\ \E ok \in BOOLEAN :
          IF ok THEN mainPc' = "release" /\ closed' = TRUE
          ELSE mainPc' = "pa_error" /\ closed' = closed
    /\ UNCHANGED <<args, exitCode, session, streamActive, freed>>
    /\ UNCHANGED cbVars

\* lines 420-428: Pa_Terminate, free the session objects (av_packet_free
\* releases what the packet still holds), return 0
ReleaseResources ==
    /\ mainPc = "release"
    /\ freed' = TRUE
    /\ held' = FALSE
    /\ Exit(0)
    /\ UNCHANGED <<args, session, streamActive, closed>>
    /\ UNCHANGED <<cbPc, frameCount, frameQueue, output, ret, eof, source, decoded,
                   pushed, played, entryQueue, entryPushed, readsInCall, requested,
                   packetData, packetFrames>>

\* lines 199-206: Pa_Terminate stops and closes a stream that is still open,
\* which waits for a running callback; then the process exits
handlePaError ==
    /\ mainPc = "pa_error"
    /\ cbPc = "idle"
    /\ streamActive' = FALSE
    /\ Exit(EXIT_FAILURE)
    /\ UNCHANGED <<args, session, freed, closed>>
    /\ UNCHANGED cbVars

-----------------------------------------------------------------------------
(* pa_stream_cb, lines 81-165 *)

\* The audio subsystem calls the callback with a request of n frames; it does
\* so while the stream is active and no invocation has returned paComplete.
Invoke(n) ==
    /\ streamActive
    /\ cbPc = "idle"
    /\ ret /= paComplete
    /\ cbPc' = "while"
    /\ frameCount' = n
    /\ output' = <<>>
    /\ ret' = "running"
    /\ entryQueue' = frameQueue
    /\ entryPushed' = Len(pushed)
    /\ readsInCall' = 0
    /\ UNCHANGED <<frameQueue, held, eof, source, decoded, pushed, played, requested,
                   packetData, packetFrames>>
    /\ UNCHANGED mainVars

\* lines 92-136: av_read_frame yields a packet
ReadPacket(pkt) ==
    /\ cbPc = "while"
    /\ NeedsRefill(frameQueue, frameCount)
    /\ ~eof
    /\ Len(source) < MaxPackets
    /\ LET p == Len(source) + 1
           r == ProcessPacket(p, pkt, session)
       IN  /\ source' = Append(source, pkt)
           /\ readsInCall' = readsInCall + 1
           /\ decoded' = IF r.decoded THEN Append(decoded, p) ELSE decoded
           /\ frameQueue' = frameQueue \o r.frames
           /\ pushed' = pushed \o r.frames
           /\ packetData' = r.data
           /\ packetFrames' = r.frames
           /\ held' = ~r.unref
           /\ cbPc' = IF r.complete THEN "idle" ELSE "while"
           /\ ret' = IF r.complete THEN paComplete ELSE ret
    /\ UNCHANGED <<frameCount, output, eof, played, entryQueue, entryPushed, requested>>
    /\ UNCHANGED mainVars

\* ReadEndOfSource with the drain and the return of lines 138-150 left out:
\* the loop of line 91 goes round again
ReadEndOfSourceRetry ==
    /\ cbPc = "while"
    /\ NeedsRefill(frameQueue, frameCount)
    /\ eof' = TRUE
    /\ UNCHANGED <<cbPc, frameCount, frameQueue, output, ret, held, source, decoded, pushed,
                   played, entryQueue, entryPushed, readsInCall, requested, packetData,
                   packetFrames>>
    /\ UNCHANGED mainVars

\* lines 137-151: av_read_frame reports the end of the source
ReadEndOfSource ==
    /\ cbPc = "while"
    /\ NeedsRefill(frameQueue, frameCount)
    /\ eof' = TRUE
    /\ LET d == DrainFrames(frameQueue)
       IN  /\ output' = output \o d.written
           /\ played' = played \o d.written
           /\ frameQueue' = d.queue
    /\ cbPc' = "idle"
    /\ ret' = paComplete
    /\ UNCHANGED <<frameCount, held, source, decoded, pushed, entryQueue, entryPushed,
                   readsInCall, requested, packetData, packetFrames>>
    /\ UNCHANGED mainVars

\* lines 154-164: enough frames are queued
WriteOutput ==
    /\ cbPc = "while"
    /\ ~NeedsRefill(frameQueue, frameCount)
    /\ LET w == PopFrames(frameQueue, frameCount)
       IN  /\ output' = output \o w.written
           /\ played' = played \o w.written
           /\ frameQueue' = w.queue
    /\ requested' = requested + frameCount
    /\ cbPc' = "idle"
    /\ ret' = paContinue
    /\ UNCHANGED <<frameCount, held, eof, source, decoded, pushed, entryQueue, entryPushed,
                   readsInCall, packetData, packetFrames>>
    /\ UNCHANGED mainVars

-----------------------------------------------------------------------------

Next ==
    \/ ParseArgs
    \/ OpenInput
    \/ OpenStream
    \/ StartStream
    \/ WaitEnter
    \/ StopStream
    \/ CloseStream
    \/ ReleaseResources
    \/ handlePaError
    \/ \E n \in 0..MaxCount : Invoke(n)
    \/ \E pkt \in Packets(session) : ReadPacket(pkt)
    \/ ReadEndOfSource
    \/ WriteOutput

Spec == Init /\ [][Next]_vars

\* a step of the thread that runs the callback
CallbackStep ==
    \/ \E pkt \in Packets(session) : ReadPacket(pkt)
    \/ ReadEndOfSource
    \/ WriteOutput

\* The callback, once called, keeps running (lines 91-164 hold no wait), and
\* the audio subsystem keeps calling it with requests of at least one frame
\* for as long as the stream is active and no call has returned paComplete.
FairSpec ==
    /\ Spec
    /\ WF_vars(CallbackStep)
    /\ SF_vars(\E n \in 1..MaxCount : Invoke(n))

-----------------------------------------------------------------------------
(* The repacker of lines 111-134 on its own, fed channel buffers of any length *)

\* the sessions main hands to the callback (lines 377-385)
RepackSessions ==
    {[nb_streams |-> 2, audioStreamIndex |-> 1, sample_fmt |-> fmt, channels |-> ch] :
        fmt \in {f \in SampleFmts : getPaSampleFormat(f)}, ch \in 1..MaxChannels}

\* packetData of L bytes per buffer: one buffer per channel when planar, one
\* buffer when interleaved; byte j of buffer c of the p-th packet is its own value
RawBuffers(p, s, L) ==
    [c \in 1..(IF av_sample_fmt_is_planar(s.sample_fmt) THEN s.channels ELSE 1) |->
        [j \in 1..L |-> Byte(p, j - 1, c - 1, 0)]]

RepackInit ==
    /\ mainPc = "playing"
    /\ args = {"file"}
    /\ exitCode = NotExited
    /\ session \in RepackSessions
    /\ streamActive = TRUE
    /\ freed = FALSE
    /\ closed = FALSE
    /\ cbPc = "while"
    /\ frameCount = MaxCount
    /\ frameQueue = <<>>
    /\ output = <<>>
    /\ ret = "running"
    /\ held = FALSE
    /\ eof = FALSE
    /\ source = <<>>
    /\ decoded = <<>>
    /\ pushed = <<>>
    /\ played = <<>>
    /\ entryQueue = <<>>
    /\ entryPushed = 0
    /\ readsInCall = 0
    /\ requested = 0
    /\ packetData = <<>>
    /\ packetFrames = <<>>

\* lines 111-134 for a packet whose buffers hold L bytes each
RepackStep(L) ==
    /\ readsInCall < MaxPackets
    /\ readsInCall' = readsInCall + 1
    /\ packetData' = RawBuffers(readsInCall + 1, session, L)
    /\ packetFrames' = Repack(packetData', session)
    /\ frameQueue' = frameQueue \o packetFrames'
    /\ pushed' = pushed \o packetFrames'
    /\ UNCHANGED <<cbPc, frameCount, output, ret, held, eof, source, decoded, played,
                   entryQueue, entryPushed, requested>>
    /\ UNCHANGED mainVars

RepackNext == \E L \in 0..MaxLen : RepackStep(L)

SpecRepack == RepackInit /\ [][RepackNext]_vars

-----------------------------------------------------------------------------
(* Vocabulary of the properties *)

RECURSIVE SumSeq(_)
SumSeq(q) == IF q = <<>> THEN 0 ELSE Head(q) + SumSeq(Tail(q))

\* the sample-frame at position k of packet p: one sample per channel, in
\* channel order
SampleFrame(p, k) ==
    LET bps == av_get_bytes_per_sample(session.sample_fmt)
    IN  [j \in 1..(session.channels * bps) |-> Byte(p, k, (j - 1) \div bps, (j - 1) % bps)]

OfAudioStream(pkt) == pkt.stream_index = session.audioStreamIndex

\* the packet decodes without error
Valid(pkt) ==
    OfAudioStream(pkt) /\ pkt.send = 0 /\ pkt.end \in {AVERROR_EAGAIN, AVERROR_EOF}

\* the code decodePacket hands back for the packet
DecodeResult(pkt) ==
    IF pkt.send < 0 THEN pkt.send
    ELSE IF pkt.end \in {AVERROR_EAGAIN, AVERROR_EOF} THEN 0 ELSE pkt.end

GivingUpCodes == {AVERROR_EAGAIN, AVERROR_EOF, AVERROR_EINVAL, AVERROR_ENOMEM}

FatalFailure(pkt) == OfAudioStream(pkt) /\ DecodeResult(pkt) \in GivingUpCodes
NonFatalFailure(pkt) ==
    OfAudioStream(pkt) /\ DecodeResult(pkt) < 0 /\ DecodeResult(pkt) \notin GivingUpCodes

\* the frames of the valid packets among the first n of the source, in the
\* order of the packets and of the samples within each packet
RECURSIVE FramesOfSource(_)
FramesOfSource(n) ==
    IF n = 0 THEN <<>>
    ELSE FramesOfSource(n - 1) \o
         (IF Valid(source[n])
          THEN [k \in 1..SumSeq(source[n].frames) |-> SampleFrame(n, k - 1)]
          ELSE <<>>)

\* every packet read so far is of another stream or decodes without error
CleanSource == \A i \in 1..Len(source) : ~OfAudioStream(source[i]) \/ Valid(source[i])

\* number of sample-frames the decoder produced for the packets read so far
Produced ==
    SumSeq([i \in 1..Len(source) |->
              IF OfAudioStream(source[i]) /\ source[i].send = 0
              THEN SumSeq(source[i].frames) ELSE 0])

\* an invocation of the callback has returned and none is running
Returned == cbPc = "idle" /\ ret \in {paContinue, paComplete}

\* the last packet the current (or last) invocation read
ReadInCall == readsInCall >= 1
LastPacket == source[Len(source)]

\* what the invocation had to serve from: the queue at entry and what it pushed
Available == entryQueue \o SubSeq(pushed, entryPushed + 1, Len(pushed))

-----------------------------------------------------------------------------
(* C1..C10 *)

\* C1: an invocation that returns paContinue on a request of N frames wrote
\* exactly the N frames at the front of the queue (the queue at entry followed
\* by what the invocation pushed) and removed exactly those; an invocation
\* that wrote fewer than N frames returned paComplete.
C1_ContinueDeliversRequest ==
    Returned =>
        /\ ret = paContinue =>
              /\ Len(output) = frameCount
              /\ output = SubSeq(Available, 1, frameCount)
              /\ frameQueue = SubSeq(Available, frameCount + 1, Len(Available))
        /\ Len(output) < frameCount => ret = paComplete

C1_Witness ==
    /\ Returned /\ ret = paContinue
    /\ frameCount = 2 /\ ReadInCall
    /\ entryQueue /= <<>> /\ frameQueue /= <<>>

\* C2: for a source whose packets all decode without error, every invocation
\* before the end of the source returns paContinue, the frames delivered by
\* those invocations number the sum of their requests (N times their number
\* for a fixed N), and the invocation that meets the end of the source returns
\* paComplete after delivering the rest, fewer than it was asked for; in
\* total exactly the frames the decoder produced are delivered.
C2_CleanSourceDeliveredInFull ==
    CleanSource =>
        /\ (Returned /\ ~eof) => (ret = paContinue /\ Len(played) = requested)
        /\ eof =>
              /\ ret = paComplete
              /\ Len(played) = Produced
              /\ Len(output) = Produced - requested
              /\ Len(output) < frameCount

C2_Witness ==
    /\ CleanSource /\ eof
    /\ Len(source) = MaxPackets
    /\ frameCount = 3 /\ requested = 3 /\ Len(output) = 1

\* C3: the frames written to output buffers, over all invocations, followed by
\* the frames still queued are the frames pushed, in the order pushed, and the
\* frames pushed are those of the source's packets in the order of the packets
\* and of the samples within each packet.
C3_FifoOrder ==
    /\ played \o frameQueue = pushed
    /\ pushed = FramesOfSource(Len(source))

C3_Witness ==
    /\ Len(played) >= 3
    /\ played[1][1][1] = 1
    /\ played[Len(played)][1][1] = 2
    /\ frameQueue /= <<>>
    /\ ret = paContinue

\* C4 as claimed: an invocation that wrote fewer frames than requested met the
\* end of the source.
C4_ShortOnlyAtEndOfSource ==
    (Returned /\ Len(output) < frameCount) => eof

\* C4, amended: an invocation that wrote fewer frames than requested met the
\* end of the source or gave up on a packet whose decoding failed fatally.
C4_ShortOnlyAtEndOrFatal ==
    (Returned /\ Len(output) < frameCount) =>
        \/ eof
        \/ ReadInCall /\ FatalFailure(LastPacket)

C4_Witness ==
    /\ Returned /\ ~eof
    /\ Len(output) < frameCount
    /\ FatalFailure(LastPacket)
    /\ frameQueue /= <<>>

\* C5 as claimed: a packet whose submission the decoder rejects, whatever the
\* code, ends the invocation with paComplete.
C5_RejectedIsFatal ==
    (ReadInCall /\ OfAudioStream(LastPacket) /\ LastPacket.send < 0) =>
        (cbPc = "idle" /\ ret = paComplete)

\* C5, amended: a packet whose submission is rejected with EAGAIN, EOF, EINVAL
\* or ENOMEM ends the invocation with paComplete, nothing written, and no
\* packet is ever read after it; a submission rejected with another code
\* does not end the invocation.
C5_RejectedByCode ==
    /\ (ReadInCall /\ OfAudioStream(LastPacket) /\ LastPacket.send \in GivingUpCodes) =>
          (cbPc = "idle" /\ ret = paComplete /\ ~eof /\ output = <<>>)
    /\ \A i \in 1..(Len(source) - 1) :
          ~(OfAudioStream(source[i]) /\ source[i].send \in GivingUpCodes)
    /\ (ReadInCall /\ OfAudioStream(LastPacket) /\ LastPacket.send < 0
          /\ LastPacket.send \notin GivingUpCodes) =>
          (cbPc = "while" \/ eof)

C5_Witness ==
    /\ Len(source) = 2
    /\ OfAudioStream(LastPacket) /\ LastPacket.send = AVERROR_EINVAL
    /\ readsInCall = 2
    /\ frameQueue /= <<>>
    /\ ret = paComplete

\* C6: after a packet whose decoding fails with a non-fatal error the
\* invocation is still in its refill loop, and it leaves the loop only at the
\* end of the source; once the source is exhausted every frame of every
\* valid packet has been delivered, in order.
C6_SkipAndRetry ==
    /\ (ReadInCall /\ NonFatalFailure(LastPacket)) => (cbPc = "while" \/ eof)
    /\ eof => played = FramesOfSource(Len(source))

C6_Witness ==
    /\ eof
    /\ Len(source) = 2
    /\ NonFatalFailure(source[1]) /\ source[1].send = 0 /\ source[1].frames /= <<>>
    /\ Valid(source[2])
    /\ Len(played) = 2
    /\ readsInCall = 2

\* C7: a packet of another stream than the selected one is never passed to
\* decodePacket, no frame in the queue comes from such a packet, and reading
\* one leaves the queue as it was.
C7_OtherStreamDiscarded ==
    /\ [](/\ \A i \in 1..Len(decoded) : source[decoded[i]].stream_index = session.audioStreamIndex
          /\ \A i \in 1..Len(pushed) :
                source[pushed[i][1][1]].stream_index = session.audioStreamIndex)
    /\ [][(/\ Len(source') = Len(source) + 1
           /\ source'[Len(source')].stream_index /= session.audioStreamIndex)
          => (frameQueue' = frameQueue /\ decoded' = decoded /\ pushed' = pushed)]_vars

C7_Witness ==
    /\ cbPc = "while"
    /\ Len(source) = 2
    /\ ~OfAudioStream(source[2])
    /\ Len(frameQueue) = 2
    /\ decoded = <<1>>

\* C8 as claimed: between the iterations of the refill loop and after the
\* callback has returned, the packet holds no reference.
C8_PacketReleased == ~held

\* C9: an invocation with a request of 0 frames reads no packet, pushes and
\* writes nothing, leaves the queue as it found it and returns paContinue.
C9_ZeroRequest ==
    (frameCount = 0 /\ ret /= "none") =>
        /\ readsInCall = 0
        /\ output = <<>>
        /\ frameQueue = entryQueue
        /\ Len(pushed) = entryPushed
        /\ ~eof
        /\ cbPc = "idle" => ret = paContinue

C9_Witness ==
    /\ frameCount = 0 /\ cbPc = "idle" /\ ret = paContinue
    /\ frameQueue /= <<>> /\ played /= <<>>

\* C10 as claimed: on a command line cxxopts accepts, --help exits 0 and a
\* command line without a file path (and without --help) exits non-zero, the
\* command line without arguments included.
C10_NoFileExitsNonZero ==
    (mainPc = "exited" /\ "unknown" \notin args) =>
        /\ "help" \in args => exitCode = 0
        /\ ("file" \notin args /\ "help" \notin args) => exitCode /= 0

\* C10, amended: on a command line cxxopts accepts, --help exits 0, the
\* command line without arguments exits 0, and a command line with arguments
\* but without a file path, --help and --listhostapi exits non-zero.
C10_ExitStatus ==
    (mainPc = "exited" /\ "unknown" \notin args) =>
        /\ "help" \in args => exitCode = 0
        /\ args = {} => exitCode = 0
        /\ (args /= {} /\ args \cap {"file", "help", "listhostapi"} = {}) => exitCode /= 0

C10_Witness ==
    /\ mainPc = "exited"
    /\ args = {"verbosity"}
    /\ exitCode = EXIT_FAILURE

-----------------------------------------------------------------------------

\* bytes of one sample-frame in the queue and in the output buffer
FrameSize == session.channels * av_get_bytes_per_sample(session.sample_fmt)

\* the frames of the p-th packet of the source, as the decoder yields them
FramesOfPacket(p) == [k \in 1..SumSeq(source[p].frames) |-> SampleFrame(p, k - 1)]

\* C11: when the source is exhausted while the queue holds k < N frames, the
\* invocation writes exactly those k frames (k may be 0), in FIFO order, at the
\* start of the output buffer and nothing behind them, leaves the queue empty
\* and returns paComplete.
C11_DrainAndFinish ==
    eof =>
        /\ Returned /\ ret = paComplete
        /\ Len(Available) < frameCount
        /\ output = Available
        /\ \A i \in 1..Len(output) : Len(output[i]) = FrameSize
        /\ frameQueue = <<>>

C11_Witness ==
    /\ eof /\ ret = paComplete
    /\ frameCount = 3 /\ Len(output) = 2
    /\ Len(entryQueue) = 1 /\ ReadInCall
    /\ frameQueue = <<>>

-----------------------------------------------------------------------------

\* distance between the starts of two frames in a buffer handed to the repacker
Stride ==
    IF av_sample_fmt_is_planar(session.sample_fmt)
    THEN av_get_bytes_per_sample(session.sample_fmt)
    ELSE FrameSize

\* C12: for channel buffers of L bytes the repacker pushes floor(L / stride)
\* frames, and no pushed frame holds a byte from beyond the end of a buffer,
\* also when L is not a multiple of the stride.
C12_PartialTrailingBytesDropped ==
    packetData /= <<>> =>
        /\ Len(packetFrames) = Len(packetData[1]) \div Stride
        /\ \A k \in 1..Len(packetFrames) :
              \A j \in 1..Len(packetFrames[k]) : packetFrames[k][j] /= Garbage

-----------------------------------------------------------------------------

\* C13: for a planar stream, the k-th frame pushed for a packet holds at the
\* byte offset of channel c exactly sample k of channel c of the decoder's
\* output, and as many frames are pushed as each channel has samples.
C13_PlanarTranspose ==
    (source /= <<>> /\ Valid(LastPacket) /\ av_sample_fmt_is_planar(session.sample_fmt)) =>
        LET bps == av_get_bytes_per_sample(session.sample_fmt)
            n == Len(packetData[1]) \div bps
        IN  /\ Len(packetData) = session.channels
            /\ n = SumSeq(LastPacket.frames)
            /\ Len(packetFrames) = n
            /\ \A k \in 1..n :
                  /\ Len(packetFrames[k]) = session.channels * bps
                  /\ \A c \in 0..(session.channels - 1), b \in 0..(bps - 1) :
                        /\ packetFrames[k][c * bps + b + 1] = packetData[c + 1][(k - 1) * bps + b + 1]
                        /\ packetFrames[k][c * bps + b + 1] = Byte(Len(source), k - 1, c, b)

C13_Witness ==
    /\ source /= <<>> /\ Valid(LastPacket)
    /\ session.sample_fmt = "S16P" /\ session.channels = 2
    /\ LastPacket.frames = <<1, 1>>
    /\ Len(packetFrames) = 2

-----------------------------------------------------------------------------

\* a step of the callback that reads the next packet of the source
ReadsPacket == Len(source') = Len(source) + 1

\* C14: every element of the queue is numChannels * bytesPerSample bytes long;
\* the queue grows only by the repacked decoder output of a packet being
\* appended, and shrinks only by frames being taken from its front and copied,
\* in that order, to the end of what the output buffer holds.
C14_QueueDiscipline ==
    /\ [](\A i \in 1..Len(frameQueue) : Len(frameQueue[i]) = FrameSize)
    /\ [][frameQueue' /= frameQueue =>
            \/ /\ ReadsPacket
               /\ Valid(source'[Len(source')])
               /\ frameQueue' = frameQueue \o FramesOfPacket(Len(source))'
               /\ output' = output
            \/ /\ ~ReadsPacket
               /\ \E m \in 1..Len(frameQueue) :
                     /\ frameQueue' = SubSeq(frameQueue, m + 1, Len(frameQueue))
                     /\ output' = output \o SubSeq(frameQueue, 1, m)]_vars

C14_Witness ==
    /\ Returned /\ ret = paContinue
    /\ session.channels = 2 /\ session.sample_fmt = "U8"
    /\ ReadInCall /\ Valid(LastPacket)
    /\ Len(output) = 1 /\ Len(frameQueue) = 1

-----------------------------------------------------------------------------

\* C15: when decoding a packet fails with a non-fatal error after the decoder
\* has already yielded frames for it, none of the packet's frames is pushed:
\* the queue after the skip is the queue before it, and the loop goes on.
C15_NoPartialPush ==
    [][(ReadsPacket /\ NonFatalFailure(source'[Len(source')])
                    /\ source'[Len(source')].frames /= <<>>) =>
            /\ Flatten(packetData') /= <<>>
            /\ packetFrames' = <<>>
            /\ frameQueue' = frameQueue
            /\ pushed' = pushed
            /\ cbPc' = "while"]_vars

C15_Witness ==
    /\ ReadInCall /\ NonFatalFailure(LastPacket)
    /\ LastPacket.frames = <<2>>
    /\ Flatten(packetData) /= <<>>
    /\ packetFrames = <<>>
    /\ frameQueue = entryQueue /\ frameQueue /= <<>>
    /\ cbPc = "while"

-----------------------------------------------------------------------------

\* C16: the session objects are freed only after the stream has been stopped
\* and closed successfully; no step of a callback invocation happens at or
\* after the freeing; and a process that exits on a failed stop or close (or
\* any other failure) has freed nothing.
C16_TeardownOrder ==
    /\ [](freed => (closed /\ ~streamActive /\ cbPc = "idle" /\ exitCode = 0))
    /\ [](exitCode = EXIT_FAILURE => ~freed)
    /\ [][freed' => (cbPc = "idle" /\ cbPc' = "idle" /\ frameQueue' = frameQueue
                                   /\ source' = source /\ output' = output)]_vars

C16_Witness ==
    /\ freed /\ closed /\ exitCode = 0
    /\ source /= <<>> /\ played /= <<>>
    /\ ret = paContinue

-----------------------------------------------------------------------------

\* C17: whatever path an invocation takes, it writes at most N frames of
\* FrameSize bytes each, one after the other from the start of the output
\* buffer, and it never takes front() of, or pops, an empty queue.
C17_BoundedWriteNoUnderflow ==
    /\ Len(output) <= frameCount
    /\ \A i \in 1..Len(output) : Len(output[i]) = FrameSize /\ output[i] /= <<Garbage>>
    /\ SumSeq([i \in 1..Len(output) |-> Len(output[i])]) <= frameCount * FrameSize
    /\ Len(output) <= Len(Available)
    /\ output = SubSeq(Available, 1, Len(output))

C17_Witness ==
    /\ Returned /\ ret = paContinue
    /\ frameCount = 3 /\ Len(output) = 3
    /\ ReadInCall
    /\ frameQueue = <<>>

-----------------------------------------------------------------------------

\* the largest number of frames a single packet yields
MaxYield == CHOOSE y \in {SumSeq(f) : f \in FrameRuns} : \A f \in FrameRuns : SumSeq(f) <= y

Max(a, b) == IF a >= b THEN a ELSE b

\* C18: with Y the largest number of frames one packet yields, an invocation
\* that read at least one packet and returned paContinue leaves fewer than Y
\* frames queued, and during an invocation with request N the queue never
\* holds more than max(its size at entry, N - 1 + Y) frames.
C18_QueueBound ==
    /\ (Returned /\ ret = paContinue /\ ReadInCall) => Len(frameQueue) < MaxYield
    /\ Len(frameQueue) <= Max(Len(entryQueue), frameCount - 1 + MaxYield)

C18_Witness ==
    /\ Returned /\ ret = paContinue /\ ReadInCall
    /\ frameCount = 2 /\ Len(entryQueue) = 1
    /\ Len(frameQueue) = MaxYield - 1

-----------------------------------------------------------------------------

\* C19: a packet is read only while the queue holds fewer than N frames: an
\* invocation entered with at least N frames queued reads no packet and leaves
\* the source cursor and the decoder as they were, and an invocation stops
\* reading as soon as the queue holds N frames.
C19_LazyDecode ==
    /\ [](Len(entryQueue) >= frameCount => readsInCall = 0)
    /\ [][ReadsPacket => Len(frameQueue) < frameCount]_vars
    /\ [][Len(frameQueue) >= frameCount =>
            (source' = source /\ decoded' = decoded /\ eof' = eof)]_vars

C19_Witness ==
    /\ Returned /\ ret = paContinue
    /\ frameCount = 1 /\ Len(entryQueue) = 1
    /\ readsInCall = 0 /\ source /= <<>>
    /\ output = entryQueue /\ frameQueue = <<>>

-----------------------------------------------------------------------------

\* C20: the source being finite, every invocation of the callback returns;
\* called again and again with requests of at least one frame, the callback
\* eventually returns paComplete (unless the stream is stopped first); and
\* once it has returned paComplete on the end of the source, the queue is empty.
C20_Termination ==
    /\ (cbPc = "while") ~> (cbPc = "idle")
    /\ streamActive ~> (ret = paComplete \/ ~streamActive)
    /\ []((eof /\ Returned) => (ret = paComplete /\ frameQueue = <<>>))

C20_Witness ==
    /\ eof /\ Returned /\ ret = paComplete
    /\ Len(source) = MaxPackets
    /\ requested >= 2 /\ Len(played) > requested
    /\ frameQueue = <<>>

====
